---- MODULE Spec2Model ----
(***************************************************************************)
(* The review workflow of search.py (class SpotifyPlaylistApp): the        *)
(* fields of the application object, the Tk callbacks that change them,    *)
(* and the three collaborators they call (the Spotify client, the pygame   *)
(* mixer and the file system).  A callback is one atomic action: Tk runs   *)
(* callbacks one at a time on its event loop.  What a collaborator answers *)
(* (a result list, an exception) is an input of the action.                *)
(*                                                                         *)
(* Python's None is the empty tuple and a present value v is <<v>>; a text *)
(* is a tuple of one-character strings.  Write-only fields                 *)
(* (local_title, local_artist, local_duration_str)                         *)
(* and the url entry, which is read only in the callback that the user     *)
(* triggers after typing in it, are not state variables.                   *)
(***************************************************************************)
EXTENDS Integers, Sequences, FiniteSets, TLC

VARIABLES
    sp,                 \* "client", or "None" after SpotifyOauthError (l.67-78)
    ui,                 \* what main_frame shows: "initial" or "file"
    playlist_id,        \* 0 for None, else the id the catalog returned
    playlist_name,      \* None or <<text>>
    selected_directory, \* None or <<the tree os.walk finds under it>>
    audio_files,        \* the sorted candidate files
    skipped_songs,      \* basenames of the skipped files
    current_index,      \* the cursor (0-based, as in the code)
    current_filepath,   \* None or <<file>>
    preview_temp_path,  \* 0 for None, else the temp file's name
    query_var,          \* text of the search entry
    track_var,          \* "unset" (attribute missing) or the selected uri
    results,            \* rows of results_frame; the Add button exists iff non-empty
    playing,            \* pygame.mixer.music: "none", "local" or "preview"
    disk,               \* temp files that exist on disk
    playlists,          \* the catalog: playlists[id] = [name, items]
    session,            \* number of directory selections so far
    n_ops,              \* skips and adds completed in this session
    n_create,           \* user_playlist_create calls made in this session
    n_created,          \* those of them that returned a playlist
    n_added,            \* playlist_add_items calls that returned in this session
    skipped_here,       \* basenames of the files skipped in this session
    append_arg,         \* the playlist id the last callback passed to
                        \* playlist_add_items (0 for None), -1 if it made no call
    last_op,            \* the callback that ran last
    branch,             \* the path it took
    shown,              \* titles of the message boxes it showed
    raised,             \* whether it ended in an exception Tk caught
    report              \* the skipped list shown by the last "Done" box

vars == <<sp, ui, playlist_id, playlist_name, selected_directory, audio_files, skipped_songs,
          current_index, current_filepath, preview_temp_path, query_var,
          track_var, results, playing, disk, playlists, session, n_ops,
          n_create, n_created, n_added, skipped_here, append_arg, last_op,
          branch, shown, raised, report>>

-----------------------------------------------------------------------------
(* Bounds of the model. *)
MaxFiles == 2
MaxSessions == 2
MaxCreateCalls == 1
MaxTemp == 2
MaxTree == 3

(* limit=5 of sp.search *)
SearchLimit == 5

-----------------------------------------------------------------------------
(* Python values. *)
None == <<>>
Some(v) == <<v>>
Val(o) == o[1]

\* Truth value of an optional text: None and the empty text are falsy.
Truthy(o) == o # None /\ Val(o) # <<>>

\* ord() of the characters the model uses.
Ord(c) ==
    CASE c = " " -> 32 [] c = "." -> 46 [] c = "3" -> 51
      [] c = "1" -> 49 [] c = "2" -> 50
      [] c = "A" -> 65 [] c = "B" -> 66 [] c = "G" -> 71 [] c = "J" -> 74 [] c = "P" -> 80
      [] c = "T" -> 84 [] c = "X" -> 88
      [] c = "a" -> 97 [] c = "b" -> 98 [] c = "c" -> 99 [] c = "g" -> 103
      [] c = "j" -> 106 [] c = "m" -> 109 [] c = "n" -> 110 [] c = "p" -> 112
      [] c = "q" -> 113 [] c = "u" -> 117

LowerChar(c) ==
    CASE c = "A" -> "a" [] c = "B" -> "b" [] c = "G" -> "g" [] c = "J" -> "j" [] c = "P" -> "p"
      [] c = "T" -> "t" [] c = "X" -> "x" [] OTHER -> c

\* str.lower()
lower(t) == [i \in 1..Len(t) |-> LowerChar(t[i])]

\* t < u for Python strings: lexicographic on code points.
RECURSIVE StrLess(_, _)
StrLess(t, u) ==
    IF u = <<>> THEN FALSE
    ELSE IF t = <<>> THEN TRUE
    ELSE IF Head(t) # Head(u) THEN Ord(Head(t)) < Ord(Head(u))
    ELSE StrLess(Tail(t), Tail(u))

RECURSIVE lstrip(_)
lstrip(t) == IF t # <<>> /\ Head(t) = " " THEN lstrip(Tail(t)) ELSE t

RECURSIVE rstrip(_)
rstrip(t) ==
    IF t # <<>> /\ t[Len(t)] = " " THEN rstrip(SubSeq(t, 1, Len(t) - 1)) ELSE t

\* str.strip()
strip(t) == rstrip(lstrip(t))

\* os.path.splitext on a basename: the extension starts at the last dot,
\* unless only dots precede it.
splitext(n) ==
    LET D == {i \in 1..Len(n) : n[i] = "."}
        i == IF D = {} THEN 0 ELSE CHOOSE k \in D : \A d \in D : d <= k
    IN  IF i > 0 /\ \E j \in 1..(i - 1) : n[j] # "."
        THEN <<SubSeq(n, 1, i - 1), SubSeq(n, i, Len(n))>>
        ELSE <<n, <<>>>>

\* A path is [dir, name] with the tags its content holds; its basename is
\* its last component.
basename(p) == p.name

BLACKLIST_EXTENSIONS ==
    << <<".", "j", "p", "g">>, <<".", "j", "p", "e", "g">>,
       <<".", "p", "n", "g">>, <<".", "g", "i", "f">> >>

-----------------------------------------------------------------------------
(* The files a selected directory may hold: directory 1 is the selected    *)
(* one, directory 2 a subdirectory of it.                                   *)
Mp3(stem) == <<stem, ".", "m", "p", "3">>

Universe ==
    { [dir |-> 1, name |-> Mp3("b"), title |-> Some(<<"T">>), artist |-> Some(<<"X">>)],
      [dir |-> 2, name |-> Mp3("A"), title |-> None, artist |-> None],
      [dir |-> 1, name |-> <<"c", ".", "J", "P", "G">>, title |-> None, artist |-> None] }

\* What os.walk yields top-down: the files of the selected directory in the
\* order the file system lists them, then those of the subdirectory.
Walks ==
    { w \in UNION { [1..n -> Universe] : n \in 0..MaxFiles } :
        /\ \A i, j \in 1..Len(w) : i # j => w[i] # w[j]
        /\ \A i, j \in 1..Len(w) : i < j => w[i].dir <= w[j].dir }

\* A richer supply of files for the enumeration and the prefill: names with
\* an upper-case letter, with a blacklisted extension in upper case, with no
\* extension, with a leading dot only, and with two dots; tags that are
\* missing, empty or set.
TreeNames ==
    { Mp3("a"), Mp3("B"), <<"c", ".", "J", "P", "G">>, <<"j", "p", "g">>,
      <<".", "j", "p", "g">>, <<"a", ".", "j", "p", "g", ".", "m", "p", "3">> }

TagValues == {None, Some(<<>>), Some(<<"T">>)}

\* One file with any tags, or up to MaxTree untagged files in os.walk's
\* order: the selected directory's, then a.mp3 of a subdirectory.
TagTrees ==
    { <<[dir |-> 1, name |-> n, title |-> t, artist |-> a]>> :
        n \in {Mp3("a"), <<"j", "p", "g">>}, t \in TagValues,
        a \in {None, Some(<<>>), Some(<<"X">>)} }

NameTrees ==
    LET F == { [dir |-> d, name |-> n, title |-> None, artist |-> None] :
                 d \in {1, 2}, n \in TreeNames } \
             { [dir |-> 2, name |-> n, title |-> None, artist |-> None] :
                 n \in TreeNames \ {Mp3("a")} }
    IN  { w \in UNION { [1..n -> F] : n \in 0..MaxTree } :
            /\ \A i, j \in 1..Len(w) : i # j => w[i] # w[j]
            /\ \A i, j \in 1..Len(w) : i < j => w[i].dir <= w[j].dir }

Trees == TagTrees \cup NameTrees

\* The tracks the catalog knows; the first has a preview_url.
Tracks == {"uri1", "uri2"}
HasPreview(t) == t = "uri1"

\* What sp.search returns: at most SearchLimit tracks, or it raises.
SearchResults ==
    { r \in {<<>>, <<"uri1">>, <<"uri2", "uri1">>} : Len(r) <= SearchLimit }

\* What the user may answer to "Enter the name for the new Spotify
\* Playlist" in the k-th selection: the dialog is cancelled (None), or a
\* name of this selection's own.
Digit(k) == CASE k = 1 -> "1" [] k = 2 -> "2" [] k = 3 -> "3" [] OTHER -> "n"
NameInputs(k) == {None, Some(<<"P", Digit(k)>>)}

\* What the user may type into the search entry (or leave it as it is) and
\* into the url entry.
QueryInputs == {<<" ">>}
UrlInputs == {<<" ">>, <<"u">>}

\* What sp.track answers: it raises, or returns an album or a track.
LookupAnswers == {"raise", "album", "uri2"}

-----------------------------------------------------------------------------
(* The application object as a record, so that a callback is a function    *)
(* from the object and the collaborators' answers to the object.           *)
St ==
    [sp |-> sp, ui |-> ui, playlist_id |-> playlist_id,
     playlist_name |-> playlist_name, selected_directory |-> selected_directory,
     audio_files |-> audio_files,
     skipped_songs |-> skipped_songs, current_index |-> current_index,
     current_filepath |-> current_filepath,
     preview_temp_path |-> preview_temp_path, query_var |-> query_var,
     track_var |-> track_var, results |-> results, playing |-> playing,
     disk |-> disk, playlists |-> playlists, session |-> session,
     n_ops |-> n_ops, n_create |-> n_create, n_created |-> n_created,
     n_added |-> n_added, skipped_here |-> skipped_here,
     append_arg |-> append_arg,
     last_op |-> last_op, branch |-> branch, shown |-> shown,
     raised |-> raised, report |-> report]

Install(s) ==
    /\ sp' = s.sp
    /\ ui' = s.ui
    /\ playlist_id' = s.playlist_id
    /\ playlist_name' = s.playlist_name
    /\ selected_directory' = s.selected_directory
    /\ audio_files' = s.audio_files
    /\ skipped_songs' = s.skipped_songs
    /\ current_index' = s.current_index
    /\ current_filepath' = s.current_filepath
    /\ preview_temp_path' = s.preview_temp_path
    /\ query_var' = s.query_var
    /\ track_var' = s.track_var
    /\ results' = s.results
    /\ playing' = s.playing
    /\ disk' = s.disk
    /\ playlists' = s.playlists
    /\ session' = s.session
    /\ n_ops' = s.n_ops
    /\ n_create' = s.n_create
    /\ n_created' = s.n_created
    /\ n_added' = s.n_added
    /\ skipped_here' = s.skipped_here
    /\ append_arg' = s.append_arg
    /\ last_op' = s.last_op
    /\ branch' = s.branch
    /\ shown' = s.shown
    /\ raised' = s.raised
    /\ report' = s.report

\* A callback starts: nothing shown, nothing raised yet.
Begin(s, op) ==
    [s EXCEPT !.last_op = op, !.branch = "", !.shown = <<>>, !.raised = FALSE,
              !.append_arg = -1]

\* An exception leaves the function.
Raise(s, why) == [s EXCEPT !.raised = TRUE, !.branch = why]

\* messagebox.showerror / showinfo
Show(s, title) == [s EXCEPT !.shown = Append(@, title)]

-----------------------------------------------------------------------------
(* Enumeration and ordering of the candidate files. *)

InBlacklist(ext) ==
    \E i \in DOMAIN BLACKLIST_EXTENSIONS : BLACKLIST_EXTENSIONS[i] = ext

\* get_audio_files: every walked file whose lower-cased extension is not
\* blacklisted, in walk order.
get_audio_files(walk) ==
    SelectSeq(walk, LAMBDA p : ~InBlacklist(lower(splitext(basename(p))[2])))

\* Faulty variant: the key keeps the case.
SortKey_cased(p) == basename(p)

\* key=lambda x: os.path.basename(x).lower()
SortKey(p) == lower(basename(p))

RECURSIVE InsertByKey(_, _)
InsertByKey(p, sq) ==
    IF sq = <<>> THEN <<p>>
    ELSE IF StrLess(SortKey(p), SortKey(Head(sq))) THEN <<p>> \o sq
    ELSE <<Head(sq)>> \o InsertByKey(p, Tail(sq))

\* list.sort(key=...): stable, so files with equal keys keep their walk order.
RECURSIVE SortFiles(_)
SortFiles(sq) ==
    IF sq = <<>> THEN <<>>
    ELSE InsertByKey(sq[Len(sq)], SortFiles(SubSeq(sq, 1, Len(sq) - 1)))

\* get_file_metadata: the title and artist tags (None when the file has no
\* such tag or cannot be read).
get_file_metadata(p) == <<p.title, p.artist>>

\* Faulty variant: the title alone whenever there is one.
Prefill_title_first(p) ==
    LET title == get_file_metadata(p)[1]
        artist == get_file_metadata(p)[2]
    IN  IF Truthy(title) THEN Val(title)
        ELSE IF Truthy(artist) THEN Val(artist)
        ELSE splitext(basename(p))[1]

\* The prefill text of the search entry.
Prefill(p) ==
    LET title == get_file_metadata(p)[1]
        artist == get_file_metadata(p)[2]
    IN  IF Truthy(title) /\ Truthy(artist)
        THEN Val(title) \o <<" ">> \o Val(artist)
        ELSE IF Truthy(title) THEN Val(title)
        ELSE IF Truthy(artist) THEN Val(artist)
        ELSE splitext(basename(p))[1]

-----------------------------------------------------------------------------
(* The callbacks.  e holds the collaborators' answers:                     *)
(*   search  sp.search's result                  search_raises  it raises    *)
(*   user    sp.current_user: "ok" or "raise"    create  user_playlist_create *)
(*   append  playlist_add_items                  lookup  sp.track            *)
(*   exists  os.path.exists(current_filepath)    load    mixer.music.load    *)
(*   get     requests.get / raise_for_status                                 *)
(* Writing the downloaded preview to its temporary file and removing that  *)
(* file are taken to succeed.                                              *)

draw_initial_ui(s) == [s EXCEPT !.ui = "initial", !.results = <<>>]

create_playlist(s, e) ==
    IF Truthy(s.playlist_name) /\ s.sp # "None"
    THEN IF e.user = "raise" THEN Raise(s, "current_user")
         ELSE IF e.create = "raise"
         THEN Raise([s EXCEPT !.n_create = @ + 1], "user_playlist_create")
         ELSE [s EXCEPT !.playlists =
                            Append(@, [name |-> Val(s.playlist_name), items |-> <<>>]),
                        !.playlist_id = Len(s.playlists) + 1,
                        !.n_create = @ + 1, !.n_created = @ + 1]
    ELSE s

\* sp.playlist_add_items(pid, [uri]): without a client the attribute access
\* raises, and spotipy cannot parse a playlist id of None.
playlist_add_items(s, pid, uri, e) ==
    IF s.sp = "None" THEN Raise(s, "no_client")
    ELSE LET s1 == [s EXCEPT !.append_arg = pid]
         IN  IF pid = 0 THEN Raise(s1, "append_to_None")
             ELSE IF e.append = "raise" THEN Raise(s1, "playlist_add_items")
             ELSE [s1 EXCEPT !.playlists[pid].items = Append(@, uri),
                             !.n_added = @ + 1]

stop_local_audio(s) == [s EXCEPT !.playing = "none"]

stop_preview_audio(s) ==
    LET p == s.preview_temp_path
    IN  [s EXCEPT !.playing = "none",
                  !.disk = IF p # 0 /\ p \in s.disk THEN @ \ {p} ELSE @,
                  !.preview_temp_path = 0]

\* Faulty variant: the rows of the previous search stay when nothing new
\* is rendered.
search_spotify_keeping_rows(s, e) ==
    LET s1 == stop_preview_audio(s)
        query == strip(s1.query_var)
    IN  IF query = <<>> THEN s1
        ELSE IF s1.sp = "None" \/ e.search_raises THEN Raise(s1, "search")
        ELSE IF e.search = <<>> THEN s1
        ELSE [s1 EXCEPT !.track_var = e.search[1], !.results = e.search]

search_spotify(s, e) ==
    LET s1 == stop_preview_audio([s EXCEPT !.results = <<>>])
        query == strip(s1.query_var)
    IN  IF query = <<>> THEN s1
        ELSE IF s1.sp = "None" \/ e.search_raises THEN Raise(s1, "search")
        ELSE IF e.search = <<>> THEN s1
        ELSE [s1 EXCEPT !.track_var = e.search[1], !.results = e.search]

show_file_prompt(s, e) ==
    IF s.current_index >= Len(s.audio_files)
    THEN draw_initial_ui(Show([s EXCEPT !.report = s.skipped_songs], "Done"))
    ELSE LET p == s.audio_files[s.current_index + 1]
         IN  search_spotify([s EXCEPT !.ui = "file", !.results = <<>>,
                                      !.current_filepath = Some(p),
                                      !.query_var = Prefill(p)], e)

\* The callback got as far as calling go_to_next_file.
Advancing(s) == [s EXCEPT !.n_ops = @ + 1]

\* Faulty variant: the cursor moves by two.
go_to_next_file_by_two(s, e) ==
    show_file_prompt(
        [stop_preview_audio(stop_local_audio(s)) EXCEPT !.current_index = @ + 2], e)

\* Faulty variant: the mixer is left playing.
go_to_next_file_playing_on(s, e) ==
    show_file_prompt(
        [[stop_preview_audio(stop_local_audio(s)) EXCEPT !.playing = s.playing]
            EXCEPT !.current_index = @ + 1], e)

go_to_next_file(s, e) ==
    show_file_prompt(
        [stop_preview_audio(stop_local_audio(s)) EXCEPT !.current_index = @ + 1], e)


select_directory(s, directory, name, e) ==
    IF directory = None THEN s
    ELSE show_file_prompt(
             [s EXCEPT !.selected_directory = directory,
                       !.playlist_name = name,
                       !.audio_files = SortFiles(get_audio_files(Val(directory))),
                       !.current_index = 0,
                       !.session = @ + 1, !.n_ops = 0, !.n_create = 0,
                       !.n_created = 0, !.n_added = 0, !.skipped_here = <<>>], e)

\* Faulty variant: the name is recorded and the file stays the current one.
skip_file_staying(s, e) ==
    LET filename == basename(s.audio_files[s.current_index + 1])
    IN  [s EXCEPT !.skipped_songs = Append(@, filename),
                  !.skipped_here = Append(@, filename)]

skip_file(s, e) ==
    LET filename == basename(s.audio_files[s.current_index + 1])
    IN  go_to_next_file(
            Advancing([s EXCEPT !.skipped_songs = Append(@, filename),
                                !.skipped_here = Append(@, filename)]), e)

\* Faulty variant: a failed append is swallowed and the file is left behind.
add_to_playlist_swallowing(s, e) ==
    LET s1 == IF s.playlist_id = 0 THEN create_playlist(s, e) ELSE s
    IN  IF s1.raised THEN s1
        ELSE IF s1.track_var = "unset" THEN Raise(s1, "track_var")
        ELSE go_to_next_file(
                 Advancing([playlist_add_items(s1, s1.playlist_id, s1.track_var, e)
                                EXCEPT !.raised = FALSE]), e)

\* Faulty variant: the playlist is created on every add.
add_to_playlist_recreating(s, e) ==
    LET s1 == create_playlist(s, e)
    IN  IF s1.raised THEN s1
        ELSE IF s1.track_var = "unset" THEN Raise(s1, "track_var")
        ELSE LET s2 == IF s1.track_var # ""
                       THEN playlist_add_items(s1, s1.playlist_id, s1.track_var, e)
                       ELSE s1
             IN  IF s2.raised THEN s2 ELSE go_to_next_file(Advancing(s2), e)

add_to_playlist(s, e) ==
    LET s1 == IF s.playlist_id = 0 THEN create_playlist(s, e) ELSE s
    IN  IF s1.raised THEN s1
        ELSE IF s1.track_var = "unset" THEN Raise(s1, "track_var")
        ELSE LET s2 == IF s1.track_var # ""
                       THEN playlist_add_items(s1, s1.playlist_id, s1.track_var, e)
                       ELSE s1
             IN  IF s2.raised THEN s2 ELSE go_to_next_file(Advancing(s2), e)

\* except Exception: the error box; the exception does not reach Tk.
Caught(s, why) == Show([s EXCEPT !.raised = FALSE, !.branch = why], "Invalid URL")

\* Faulty variant: the error is shown and the file is left behind all the same.
invalid_track_advancing(s, e) ==
    go_to_next_file(
        Advancing(Show([s EXCEPT !.branch = "not_track"], "Invalid Track")), e)

\* The lookup found something that is no track.
invalid_track(s, e) == Show([s EXCEPT !.branch = "not_track"], "Invalid Track")

add_track_by_url(s, url, e) ==
    IF strip(url) = <<>> THEN Show([s EXCEPT !.branch = "no_url"], "No URL")
    ELSE LET s1 == IF s.playlist_id = 0 THEN create_playlist(s, e) ELSE s
         IN  IF s1.raised THEN s1
             ELSE IF s1.sp = "None" \/ e.lookup = "raise"
             THEN Caught(s1, "lookup_raised")
             ELSE IF e.lookup \in Tracks
             THEN LET s2 == playlist_add_items(s1, s1.playlist_id, e.lookup, e)
                  IN  IF s2.raised THEN Caught(s2, "append_raised")
                      ELSE LET s3 == go_to_next_file(
                                         Advancing(Show(s2, "Success")), e)
                           IN  IF s3.raised THEN Caught(s3, "added_then_raised")
                               ELSE [s3 EXCEPT !.branch = "added"]
             ELSE invalid_track(s1, e)

play_local_audio(s, e) ==
    LET s1 == stop_local_audio(s)
    IN  IF s1.current_filepath # None /\ e.exists
        THEN IF e.load = "raise" THEN Show(s1, "Playback Error")
             ELSE [s1 EXCEPT !.playing = "local"]
        ELSE s1

\* tempfile.NamedTemporaryFile: a name no file has and none just had.
FreeTemps(s) == {n \in 1..MaxTemp : n \notin s.disk /\ n # s.preview_temp_path}
NewTemp(s) == CHOOSE n \in FreeTemps(s) : \A m \in FreeTemps(s) : n <= m

play_spotify_preview(s, e) ==
    LET s1 == stop_preview_audio(s)
    IN  IF e.get = "raise" THEN Show(s1, "Error")
        ELSE LET s2 == [s1 EXCEPT !.disk = @ \cup {NewTemp(s)},
                                  !.preview_temp_path = NewTemp(s)]
             IN  IF e.load = "raise" THEN Show(s2, "Error")
                 ELSE [s2 EXCEPT !.playing = "preview"]

-----------------------------------------------------------------------------
(* The actions: one per callback, with the collaborators' answers drawn    *)
(* from the sets above.  A button can be pressed while it exists.          *)

\* Answers that change nothing: every call succeeds, searches find nothing.
Calm ==
    [search |-> <<>>, search_raises |-> FALSE, user |-> "ok", create |-> "ok",
     append |-> "ok", lookup |-> "raise", exists |-> TRUE, load |-> "ok",
     get |-> "ok"]

Outcomes == {"ok", "raise"}

\* sp.search raises or returns a result.
SearchAnswers(e) ==
    { [e EXCEPT !.search = r] : r \in SearchResults }
        \cup { [e EXCEPT !.search_raises = TRUE] }

\* The answers to creating the playlist, where it would be created.  A
\* call that raises is counted, so the model stops answering so after
\* MaxCreateCalls such calls.
CreateAnswers(e) ==
    IF playlist_id = 0 /\ Truthy(playlist_name) /\ sp # "None"
    THEN {e, [e EXCEPT !.user = "raise"]}
            \cup (IF n_create < MaxCreateCalls
                  THEN {[e EXCEPT !.create = "raise"]} ELSE {})
    ELSE {e}

\* The answers a callback that goes to the next file needs.
NextFileAnswers(e) == SearchAnswers(e)

\* The answers an append needs: it raises, or it succeeds and the next file
\* is presented.
AppendAnswers(e) == {[e EXCEPT !.append = "raise"]} \cup NextFileAnswers(e)

\* The answers "Add to Playlist" needs: the creation raises, or the append
\* is reached.
AddAnswers ==
    UNION { IF e.user = "raise" \/ e.create = "raise" THEN {e} ELSE AppendAnswers(e) :
            e \in CreateAnswers(Calm) }

\* The answers "Add by URL" needs, with the text of the url entry: nothing
\* for an empty url; else the creation raises, or the lookup raises or
\* finds an album, or it finds a track and the append is reached.
UrlAnswers ==
    { <<u, Calm>> : u \in {v \in UrlInputs : strip(v) = <<>>} }
        \cup
    UNION { { <<u, f>> :
                f \in UNION { IF e.user = "raise" \/ e.create = "raise" THEN {e}
                              ELSE UNION { IF l \in Tracks
                                           THEN AppendAnswers([e EXCEPT !.lookup = l])
                                           ELSE {[e EXCEPT !.lookup = l]} :
                                           l \in LookupAnswers } :
                              e \in CreateAnswers(Calm) } } :
            u \in {v \in UrlInputs : strip(v) # <<>>} }

Init ==
    /\ sp \in {"client", "None"}
    /\ ui = "initial"
    /\ playlist_id = 0
    /\ playlist_name = None
    /\ selected_directory = None
    /\ audio_files = <<>>
    /\ skipped_songs = <<>>
    /\ current_index = 0
    /\ current_filepath = None
    /\ preview_temp_path = 0
    /\ query_var = <<>>
    /\ track_var = "unset"
    /\ results = <<>>
    /\ playing = "none"
    /\ disk = {}
    /\ playlists = <<>>
    /\ session = 0
    /\ n_ops = 0
    /\ n_create = 0
    /\ n_created = 0
    /\ n_added = 0
    /\ skipped_here = <<>>
    /\ append_arg = -1
    /\ last_op = "__init__"
    /\ branch = ""
    /\ shown = <<>>
    /\ raised = FALSE
    /\ report = <<>>

\* "Select Directory": the dialog is cancelled, or a directory and a name
\* are given.
SelectDirectory ==
    /\ ui = "initial"
    /\ \E directory \in {None} \cup {Some(w) : w \in Walks},
          name \in NameInputs(session + 1), e \in SearchAnswers(Calm) :
        /\ directory # None => session < MaxSessions
        /\ Install(select_directory(Begin(St, "select_directory"), directory, name, e))

\* "Search", after the user edited the query or left it as it is.
Search ==
    /\ ui = "file"
    /\ \E q \in QueryInputs \cup {query_var}, e \in NextFileAnswers(Calm) :
        Install(search_spotify(
                    [Begin(St, "search_spotify") EXCEPT !.query_var = q], e))

\* A radio button of the result list.
SelectTrack ==
    /\ ui = "file"
    /\ \E i \in DOMAIN results :
        Install([Begin(St, "select_track") EXCEPT !.track_var = results[i]])

\* "Add to Playlist", below a non-empty result list.
AddToPlaylist ==
    /\ ui = "file"
    /\ results # <<>>
    /\ \E e \in AddAnswers :
        Install(add_to_playlist(Begin(St, "add_to_playlist"), e))

\* "Add by URL", with what the url entry holds.
AddTrackByUrl ==
    /\ ui = "file"
    /\ \E a \in UrlAnswers :
        Install(add_track_by_url(Begin(St, "add_track_by_url"), a[1], a[2]))

\* "Skip"
SkipFile ==
    /\ ui = "file"
    /\ \E e \in NextFileAnswers(Calm) :
        Install(skip_file(Begin(St, "skip_file"), e))

\* "Play local file"
PlayLocalAudio ==
    /\ ui = "file"
    /\ \E x \in BOOLEAN, l \in Outcomes :
        Install(play_local_audio(Begin(St, "play_local_audio"),
                                 [Calm EXCEPT !.exists = x, !.load = l]))

\* "Stop local playback"
StopLocalAudio ==
    /\ ui = "file"
    /\ Install(stop_local_audio(Begin(St, "stop_local_audio")))

\* "Play Preview", in the row of a result that has a preview_url.
PlaySpotifyPreview ==
    /\ ui = "file"
    /\ \E i \in DOMAIN results : HasPreview(results[i])
    /\ FreeTemps(St) # {}
    /\ \E g \in Outcomes, l \in Outcomes :
        Install(play_spotify_preview(
                    Begin(St, "play_spotify_preview"),
                    [Calm EXCEPT !.get = g, !.load = l]))

\* "Stop", in the same row.
StopPreviewAudio ==
    /\ ui = "file"
    /\ \E i \in DOMAIN results : HasPreview(results[i])
    /\ Install(stop_preview_audio(Begin(St, "stop_preview_audio")))

\* The mixer reaches the end of what it plays.
MusicEnds ==
    /\ playing # "none"
    /\ Install([St EXCEPT !.playing = "none"])

Next ==
    \/ SelectDirectory
    \/ Search
    \/ SelectTrack
    \/ AddToPlaylist
    \/ AddTrackByUrl
    \/ SkipFile
    \/ PlayLocalAudio
    \/ StopLocalAudio
    \/ PlaySpotifyPreview
    \/ StopPreviewAudio
    \/ MusicEnds

Spec == Init /\ [][Next]_vars

\* The same program walked over the richer trees: directories are selected
\* and their files skipped through.
SelectTree ==
    /\ ui = "initial"
    /\ session < MaxSessions
    /\ \E w \in Trees, name \in NameInputs(session + 1), e \in SearchAnswers(Calm) :
        Install(select_directory(Begin(St, "select_directory"), Some(w), name, e))

FileNext ==
    \/ SelectTree
    \/ SkipFile

FileSpec == Init /\ [][FileNext]_vars


-----------------------------------------------------------------------------
(* What the properties speak of. *)

\* The step is callback op (the mixer running out is no callback).
Did(op) == last_op' = op /\ ~MusicEnds

DidAdd == Did("add_to_playlist") \/ Did("add_track_by_url")

\* The tracks in the catalog's playlists, with their positions.
Members(pl) ==
    UNION { { <<i, k, pl[i].items[k]>> : k \in DOMAIN pl[i].items } : i \in DOMAIN pl }

\* A file is presented; the workflow is at its end.
Presenting == ui = "file"
Finished == ui = "initial" /\ session > 0

-----------------------------------------------------------------------------
(* C1: cursor monotonicity.  Within a session the cursor equals the number  *)
(* of skips and adds completed so far (it starts at 0), every skip and      *)
(* every add whose append returned moves it forward by exactly one, and no  *)
(* step of the session moves it back.                                       *)
C1_CursorMonotonic ==
    /\ [](current_index = n_ops)
    /\ [][ /\ Did("skip_file") => current_index' = current_index + 1
           /\ (DidAdd /\ n_added' = n_added + 1) => current_index' = current_index + 1
           /\ session' = session =>
                 /\ current_index' >= current_index
                 /\ current_index' <= current_index + 1 ]_vars

\* A skip and an add have completed in a second session.
C1_Witness == session = 2 /\ n_ops = 2 /\ n_added = 1 /\ Len(skipped_here) = 1

(* C2: after at least one successful add in a session, exactly one          *)
(* playlist creation has happened in that session (counting only the        *)
(* user_playlist_create calls that returned).                               *)
C2_OneCreationPerSession == n_added >= 1 => n_created = 1

(* C3: a direct-reference add that fails because the url is empty, the      *)
(* lookup raises or the lookup finds no track leaves the cursor, the        *)
(* skipped list, the tracks of the playlists and the presented file as      *)
(* they were.                                                               *)
C3_FailedUrlAddLeavesState ==
    [][ (Did("add_track_by_url") /\ branch' \in {"no_url", "lookup_raised", "not_track"})
          => /\ current_index' = current_index
             /\ skipped_songs' = skipped_songs
             /\ Members(playlists') = Members(playlists)
             /\ ui' = ui
             /\ audio_files' = audio_files
             /\ current_filepath' = current_filepath ]_vars

\* The lookup found an album, after a track was added and a file skipped.
C3_Witness ==
    /\ last_op = "add_track_by_url" /\ branch = "not_track"
    /\ Members(playlists) # {} /\ skipped_songs # <<>> /\ current_index = 1

(* C4: when the creation of the playlist or the append raises in an add,    *)
(* the tracks of the playlists and the cursor are as before; the cursor     *)
(* moves in an add only when the append has returned and the track is in    *)
(* the playlist.                                                            *)
C4_FailedAddLeavesPlaylistAndCursor ==
    [][ DidAdd =>
          /\ branch' \in {"current_user", "user_playlist_create", "append_to_None",
                          "playlist_add_items", "append_raised"}
                => /\ Members(playlists') = Members(playlists)
                   /\ current_index' = current_index
          /\ current_index' # current_index
                => /\ n_added' = n_added + 1
                   /\ Cardinality(Members(playlists')) = Cardinality(Members(playlists)) + 1
                   /\ Members(playlists) \subseteq Members(playlists') ]_vars

\* The append raised on a playlist that holds a track already.
C4_Witness ==
    /\ last_op = "add_to_playlist" /\ raised /\ branch = "playlist_add_items"
    /\ Members(playlists) # {}

(* C5: skip bookkeeping.  The skipped list, and the list the "Done" box     *)
(* reports, is exactly the basenames of the files skipped in this session,  *)
(* in order; a skip appends the current file's basename and neither creates *)
(* a playlist nor appends to one.                                           *)
C5_SkippedListIsThisSessionsSkips ==
    /\ [](skipped_songs = skipped_here)
    /\ [](Finished => report = skipped_here)
    /\ [][ Did("skip_file") =>
             /\ skipped_songs' =
                    Append(skipped_songs, basename(audio_files[current_index + 1]))
             /\ playlists' = playlists
             /\ playlist_id' = playlist_id
             /\ append_arg' = -1 ]_vars

(* C6: every playlist_add_items call is made with the identifier of a       *)
(* playlist that a creation of this session returned, a playlist that       *)
(* bears the session's playlist name.                                       *)
C6_AppendGoesToTheSessionsPlaylist ==
    append_arg # -1 =>
        /\ append_arg # 0
        /\ append_arg \in DOMAIN playlists
        /\ playlist_name # None
        /\ playlists[append_arg].name = Val(playlist_name)
        /\ n_created = 1

(* C7: once a preview is stopped or superseded (its "Stop" button, another  *)
(* preview, local playback started while it plays, a search, an advance),   *)
(* its temporary file no longer exists; and no temporary file exists that   *)
(* preview_temp_path does not name.                                         *)
C7_PreviewFileReleased ==
    /\ [](disk \subseteq {preview_temp_path})
    /\ [][ ( /\ preview_temp_path # 0
             /\ \/ Did("stop_preview_audio")
                \/ Did("play_spotify_preview")
                \/ Did("play_local_audio") /\ playing = "preview"
                \/ Did("search_spotify")
                \/ ~MusicEnds /\ current_index' # current_index )
           => preview_temp_path \notin disk' ]_vars

(* C8: without a client (authentication failed at construction) every      *)
(* catalog operation fails with a message shown to the user and leaves the  *)
(* cursor, the skipped list and the playlists as they were.                 *)
C8_DegradedModeShowsMessage ==
    /\ []((sp = "None" /\ (raised \/ branch = "lookup_raised")) => shown # <<>>)
    /\ [][ (sp = "None" /\ (Did("search_spotify") \/ DidAdd))
           => /\ current_index' = current_index
              /\ skipped_songs' = skipped_songs
              /\ playlists' = playlists
              /\ playlist_id' = playlist_id ]_vars

(* C9: with a client, a search that raises, run by presenting a file or by  *)
(* the "Search" button, is reported in a message box; the "Search" button's *)
(* search leaves the cursor, the skipped list and the playlists as they     *)
(* were, and the file stays presented.                                       *)
C9_SearchErrorIsShown ==
    /\ []((sp = "client" /\ raised /\ branch = "search") => shown # <<>>)
    /\ [][ (sp = "client" /\ Did("search_spotify") /\ raised')
           => /\ current_index' = current_index
              /\ skipped_songs' = skipped_songs
              /\ playlists' = playlists
              /\ ui' = "file" ]_vars

\* A user who keeps pressing "Skip" while the button is there: weak
\* fairness of the skip step, WF_vars(SkipFile), written out with
\* ENABLED <<SkipFile>>_vars as what the guard of SkipFile makes it.
FairSpec == Spec /\ ([]<>(~Presenting) \/ []<><<Did("skip_file")>>_vars)

(* C10: termination.  A file is presented exactly while the cursor is below *)
(* the number of files, and the cursor never exceeds that number; while a   *)
(* file is presented, whatever failed before, "Skip" moves the cursor by    *)
(* one; skips and adds happen only while a file is presented; the end is    *)
(* announced by the "Done" box with the skipped list; and a user who keeps  *)
(* skipping reaches the end.                                                *)
C10_SkipReachesFinished ==
    /\ [](Presenting <=> current_index < Len(audio_files))
    /\ [](current_index <= Len(audio_files))
    /\ [](Presenting =>
            \A e \in NextFileAnswers(Calm) :
                skip_file(Begin(St, "skip_file"), e).current_index = current_index + 1)
    /\ [][ (Did("skip_file") \/ DidAdd) => Presenting ]_vars
    /\ [][ Did("skip_file") => current_index' = current_index + 1 ]_vars
    /\ [][ (~MusicEnds /\ ui' = "initial" /\ (Presenting \/ session' # session))
           => (shown'[Len(shown')] = "Done" /\ report' = skipped_songs') ]_vars
    /\ (Presenting ~> Finished)

\* Without a client, where every search raised, two skips reached the end.
C10_Witness ==
    /\ Finished /\ last_op = "skip_file" /\ sp = "None" /\ Len(skipped_here) = 2

-----------------------------------------------------------------------------
(* What "extension" and "present" mean in the properties below. *)

\* The extension of a name starts at its last dot, if a character other
\* than a dot precedes that dot; else the name has no extension.
ExtAt(n) ==
    { k \in 1..Len(n) : /\ n[k] = "."
                        /\ \A j \in (k + 1)..Len(n) : n[j] # "."
                        /\ \E j \in 1..(k - 1) : n[j] # "." }
ExtensionOf(n) ==
    IF ExtAt(n) = {} THEN <<>> ELSE SubSeq(n, CHOOSE k \in ExtAt(n) : TRUE, Len(n))
StemOf(n) == SubSeq(n, 1, Len(n) - Len(ExtensionOf(n)))

\* The default query the precedence rule gives for file f, given whether
\* its title and its artist count as present.
DefaultQuery(f, hasTitle, hasArtist) ==
    IF hasTitle /\ hasArtist THEN Val(f.title) \o <<" ">> \o Val(f.artist)
    ELSE IF hasTitle THEN Val(f.title)
    ELSE IF hasArtist THEN Val(f.artist)
    ELSE StemOf(f.name)

\* A tag is there; a tag is there and holds a text that is not empty.
IsSet(o) == o # None
NonEmpty(o) == o # None /\ Val(o) # <<>>

\* A file has just been presented.
Presented == ui' = "file" /\ (current_index' # current_index \/ session' # session)

(* C11 (as stated): whenever a file is presented, the prefilled query is   *)
(* "title artist" when both tags are present (not None), the one present   *)
(* tag when exactly one is, and the filename without its extension when    *)
(* neither is.                                                             *)
C11_DefaultQueryByPresence ==
    [][ Presented =>
          LET f == Val(current_filepath')
          IN  query_var' = DefaultQuery(f, IsSet(f.title), IsSet(f.artist)) ]_vars

(* C11 (amended): the same, where a tag counts as present only if it is    *)
(* not None and not the empty text; an empty tag is treated as absent.     *)
C11_DefaultQueryByNonEmptyTag ==
    [][ Presented =>
          LET f == Val(current_filepath')
          IN  query_var' = DefaultQuery(f, NonEmpty(f.title), NonEmpty(f.artist)) ]_vars

\* A file with an empty title and an artist is presented with the artist
\* as its query.
C11_Witness ==
    /\ ui = "file"
    /\ Val(current_filepath).title = Some(<<>>)
    /\ Val(current_filepath).artist = Some(<<"X">>)
    /\ query_var = <<"X">>

\* The image extensions of the deny-list, and how often f occurs in sq.
DenyList ==
    { <<".", "j", "p", "g">>, <<".", "j", "p", "e", "g">>,
      <<".", "p", "n", "g">>, <<".", "g", "i", "f">> }
Occurrences(sq, f) == Cardinality({i \in 1..Len(sq) : sq[i] = f})

(* C12: once a directory is selected, the file sequence holds exactly the  *)
(* files of its tree whose extension does not match the deny-list case-    *)
(* insensitively, each once, and the lower-cased basenames of adjacent     *)
(* files are non-decreasing.                                               *)
C12_EnumerationFilteredAndSorted ==
    selected_directory # None =>
        LET tree == Val(selected_directory)
        IN  /\ \A i \in 1..Len(tree) :
                  Occurrences(audio_files, tree[i]) =
                      IF lower(ExtensionOf(tree[i].name)) \in DenyList THEN 0 ELSE 1
            /\ \A i \in 1..Len(audio_files) :
                  \E j \in 1..Len(tree) : tree[j] = audio_files[i]
            /\ \A i \in 1..(Len(audio_files) - 1) :
                  ~StrLess(lower(audio_files[i + 1].name), lower(audio_files[i].name))

\* B.mp3 is walked before a.mp3, with an image next to them.
C12_Witness ==
    /\ selected_directory # None
    /\ Len(Val(selected_directory)) = 3
    /\ Val(selected_directory)[1].name = Mp3("B")
    /\ Val(selected_directory)[2].name = <<"c", ".", "J", "P", "G">>
    /\ Val(selected_directory)[3].name = Mp3("a")
    /\ Len(audio_files) = 2
    /\ audio_files[1].name = Mp3("a")

(* C13: the mixer plays at most one stream, local or preview.  Starting   *)
(* local playback leaves no preview playing and starting a preview leaves  *)
(* no local file playing, also when the new stream fails to start;         *)
(* whenever the cursor moves, a file is presented or the initial screen is *)
(* shown, nothing is playing.                                              *)
C13_PlaybackStoppedFirst ==
    /\ [](playing \in {"none", "local", "preview"})
    /\ [](ui = "initial" => playing = "none")
    /\ [][ /\ Did("play_local_audio") => playing' \in {"none", "local"}
           /\ Did("play_spotify_preview") => playing' \in {"none", "preview"}
           /\ (current_index' # current_index \/ Presented \/ ui' # ui)
                 => playing' = "none" ]_vars

\* Local playback was started over a downloaded preview and is the one
\* stream playing.
C13_Witness ==
    /\ last_op = "play_local_audio"
    /\ playing = "local"
    /\ preview_temp_path # 0

(* C14: an add by URL whose lookup raises or finds something that is no    *)
(* track makes no catalog mutation: the playlist identifier, the catalog's *)
(* playlists and the number of creation calls stay as they were, as do     *)
(* the cursor and the skipped list.                                        *)
C14_FailedUrlAddCreatesNothing ==
    [][ (Did("add_track_by_url") /\ branch' \in {"lookup_raised", "not_track"})
          => /\ playlist_id' = playlist_id
             /\ playlists' = playlists
             /\ n_create' = n_create
             /\ current_index' = current_index
             /\ skipped_songs' = skipped_songs ]_vars

\* A search has just run: by the button, or for a newly presented file.
Searched == Did("search_spotify") \/ (~MusicEnds /\ Presented)

(* C15: "Add to Playlist" runs only while the rows of the latest search    *)
(* are there; the selected track is one of them, the first unless the user *)
(* chose another; a successful add appends that track.  A search with an   *)
(* empty query or one that raises, and a search that finds nothing, leave  *)
(* no rows, and a newly presented file starts without the rows of the      *)
(* file before.                                                            *)
C15_AddOnlyFromLatestResults ==
    /\ [](results # <<>> => /\ ui = "file"
                            /\ \E i \in DOMAIN results : results[i] = track_var)
    /\ [](Len(results) <= SearchLimit)
    /\ [][ /\ Did("add_to_playlist") =>
                /\ results # <<>>
                /\ n_added' = n_added + 1 =>
                      /\ append_arg' \in DOMAIN playlists'
                      /\ LET items == playlists'[append_arg'].items
                         IN  /\ items # <<>>
                             /\ items[Len(items)] = track_var
                             /\ \E i \in DOMAIN results : results[i] = track_var
           /\ Searched =>
                /\ (raised' \/ strip(query_var') = <<>>) => results' = <<>>
                /\ results' # <<>> => track_var' = results'[1]
                /\ results' \in SearchResults ]_vars

\* A search raised after an earlier one had set a selection: the selection
\* is stale and there are no rows to commit it from.
C15_Witness ==
    /\ last_op = "search_spotify"
    /\ raised
    /\ sp = "client"
    /\ track_var # "unset"
    /\ results = <<>>

\* The titles of the error boxes of add_track_by_url.
UrlErrors == {"No URL", "Invalid Track", "Invalid URL"}

(* C16: an add by URL that shows one of its error boxes has appended no    *)
(* track and has not moved the cursor; one that appended a track and moved *)
(* the cursor shows no error box, also when the next file's automatic      *)
(* search raises.                                                          *)
C16_UrlErrorMeansNothingDone ==
    [][ (Did("add_track_by_url") /\ \E i \in DOMAIN shown' : shown'[i] \in UrlErrors)
          => /\ n_added' = n_added
             /\ Members(playlists') = Members(playlists)
             /\ current_index' = current_index ]_vars

(* C17: selecting a directory again starts a fresh session: the cursor is  *)
(* 0, the file sequence is the enumeration of the new directory, the       *)
(* skipped list is empty and there is no playlist identifier.              *)
C17_RestartIsFresh ==
    [][ (Did("select_directory") /\ session' # session)
          => /\ current_index' = 0
             /\ audio_files' = SortFiles(get_audio_files(Val(selected_directory')))
             /\ skipped_songs' = <<>>
             /\ playlist_id' = 0 ]_vars

(* C18: the playlist identifier, once set, is never cleared or replaced:   *)
(* it is set only from None, to the identifier of the playlist the catalog *)
(* has just created, and no later step changes it.                         *)
C18_PlaylistIdKept ==
    /\ [](playlist_id # 0 => playlist_id \in DOMAIN playlists)
    /\ [][ /\ playlist_id # 0 => playlist_id' = playlist_id
           /\ playlist_id' # playlist_id =>
                 /\ Len(playlists') = Len(playlists) + 1
                 /\ playlist_id' = Len(playlists')
                 /\ n_created' = n_created + 1 ]_vars

\* A playlist was created by an add that appended nothing, and the file
\* was then skipped.
C18_Witness ==
    /\ last_op = "skip_file"
    /\ playlist_id = 1
    /\ n_created = 1
    /\ n_added = 0
    /\ session = 1

====
